---------------------------- MODULE Spec2Model ----------------------------
(***************************************************************************)
(* A model of bindgen's IR item graph (src/ir/item.rs): the items of a     *)
(* BindgenContext, the parser operations that insert them, the re-parenting *)
(* of replacements, and the codegen-phase queries on them (ancestors,       *)
(* is_toplevel, local_id, naming, paths, tracing, derive inference).        *)
(***************************************************************************)
EXTENDS Integers, Sequences, FiniteSets, TLC

VARIABLES
    items,            \* ItemId -> Item: the context's item table
    next_item_id,     \* the context's id counter (ctx.next_item_id())
    replacements,     \* ids registered with ctx.replace(path, id)
    collected_typerefs, \* ctx.collected_typerefs()
    codegen,          \* ctx.in_codegen_phase()
    options,          \* ctx.options()
    ret,              \* the outcome of the last operation
    dstack,           \* the call stack of the derive query in progress
    currently_parsed_types \* ctx.currently_parsed_types(): the partial types

vars == <<items, next_item_id, replacements, collected_typerefs, codegen, options, ret, dstack, currently_parsed_types>>

-----------------------------------------------------------------------------
(* Bounds *)

\* Item ids are 0 .. MaxId.
MaxId == 2

\* The last item id of the contexts the naming rules are checked on: a
\* record with two functions, an alias of an alias of a type.
MaxNamingId == 3

\* The frames a derive query may stack before the model calls it divergent:
\* beyond the deepest recursion a guarded query can make over MaxId + 1 items.
MaxDepth == 2 * (MaxId + 1) + 2

-----------------------------------------------------------------------------
(* Values *)

\* ctx.root_module(): the first id the context mints.
RootId == 0

\* Option<ItemId>::None, Option<usize>::None
NoId == -1

\* Option<String>::None, Option<&str>::None
NoneStr == "<None>"

ItemIds == 0 .. MaxId

\* The ids the context has minted so far.
Minted == 0 .. (next_item_id - 1)

\* ctx.resolve_item_fallible(id).is_some()
Present(its, id) == id \in DOMAIN its

\* Annotations::default()
NoAnnotations == [hide |-> FALSE, opaque |-> FALSE, use_instead_of |-> <<>>]

\* ItemKind payloads, as the sub-parsers hand them to Item::new.
ModuleKind(name, inline) ==
    [kind |-> "Module", tkind |-> "-", name |-> name, refs |-> <<>>,
     is_inline |-> inline, constructors |-> <<>>, methods |-> <<>>,
     layout |-> "none"]

TypeKindOf(tkind, name, refs) ==
    [kind |-> "Type", tkind |-> tkind, name |-> name, refs |-> refs,
     is_inline |-> FALSE, constructors |-> <<>>, methods |-> <<>>,
     layout |-> "none"]

FunctionKind(name, signature) ==
    [kind |-> "Function", tkind |-> "-", name |-> name, refs |-> <<signature>>,
     is_inline |-> FALSE, constructors |-> <<>>, methods |-> <<>>,
     layout |-> "none"]

VarKind(name, ty) ==
    [kind |-> "Var", tkind |-> "-", name |-> name, refs |-> <<ty>>,
     is_inline |-> FALSE, constructors |-> <<>>, methods |-> <<>>,
     layout |-> "none"]

\* Item::new
ItemNew(parent_id, annotations, k) ==
    [parent_id |-> parent_id,
     kind |-> k.kind, tkind |-> k.tkind, name |-> k.name, refs |-> k.refs,
     is_inline |-> k.is_inline,
     constructors |-> k.constructors, methods |-> k.methods,
     layout |-> k.layout,
     hide |-> annotations.hide, opaque |-> annotations.opaque,
     use_instead_of |-> annotations.use_instead_of,
     local_id |-> NoId,
     next_child_local_id |-> 1,
     canonical_name_cache |-> NoneStr,
     detect_derive_debug_cycle |-> FALSE,
     detect_derive_copy_cycle |-> FALSE]

\* ctx.add_item(item, ..): the id must not hold an item yet.
AddItem(its, id, item) == (id :> item) @@ its

IsModule(it) == it.kind = "Module"

\* A record-like type: a struct, class or union.
IsRecord(it) == it.kind = "Type" /\ it.tkind = "Comp"


-----------------------------------------------------------------------------
(* Outcomes.  A query ends "ok" with a value, or "panic" (resolve_item of   *)
(* an unknown id, an explicit panic!), or "cycle": it came back to an item  *)
(* it had already visited, where a debug build fails its debug_assert! and  *)
(* a release build goes round for ever.  `its` is the item table as the     *)
(* query leaves it (the lazily set caches).                                 *)

Ok(v, its) == [st |-> "ok", val |-> v, its |-> its]
Fail(why, its) == [st |-> why, val |-> NoneStr, its |-> its]

-----------------------------------------------------------------------------
(* Ancestors *)

\* ItemAncestorsIter::next, called until it returns None.  acc holds the ids
\* yielded so far, seen is the iterator's DebugOnlyItemSet.
RECURSIVE AncestorsIter(_, _, _, _)
AncestorsIter(its, item, seen, acc) ==
    IF ~Present(its, item) THEN [st |-> "panic", ids |-> acc, at |-> item]
    ELSE IF its[item].parent_id = item
        THEN [st |-> "ok", ids |-> acc, at |-> item]
    ELSE IF item \in seen THEN [st |-> "cycle", ids |-> acc, at |-> item]
    ELSE AncestorsIter(its, its[item].parent_id, seen \cup {item},
                       Append(acc, item))

\* ItemAncestors::ancestors, collected
Ancestors(its, id) == AncestorsIter(its, id, {}, <<>>)

\* ToplevelLoop with modules looked through whatever the options say.
RECURSIVE ToplevelLoopTransparent(_, _, _)
ToplevelLoopTransparent(its, parent, seen) ==
    IF ~Present(its, parent) THEN [st |-> "ok", val |-> FALSE]
    ELSE IF parent = RootId THEN [st |-> "ok", val |-> TRUE]
    ELSE IF ~IsModule(its[parent]) THEN [st |-> "ok", val |-> FALSE]
    ELSE IF parent \in seen THEN [st |-> "cycle", val |-> FALSE]
    ELSE ToplevelLoopTransparent(its, its[parent].parent_id, seen \cup {parent})

\* ToplevelLoop with a parent missing from the context taken for the root.
RECURSIVE ToplevelLoopMissingIsRoot(_, _, _)
ToplevelLoopMissingIsRoot(its, parent, seen) ==
    IF ~Present(its, parent) THEN [st |-> "ok", val |-> TRUE]
    ELSE IF parent = RootId THEN [st |-> "ok", val |-> TRUE]
    ELSE IF options.enable_cxx_namespaces \/ ~IsModule(its[parent])
        THEN [st |-> "ok", val |-> FALSE]
    ELSE IF parent \in seen THEN [st |-> "cycle", val |-> FALSE]
    ELSE ToplevelLoopMissingIsRoot(its, its[parent].parent_id, seen \cup {parent})

\* The loop of Item::is_toplevel from `parent` on; seen holds the ids the
\* loop has been at.
RECURSIVE ToplevelLoop(_, _, _)
ToplevelLoop(its, parent, seen) ==
    IF ~Present(its, parent) THEN [st |-> "ok", val |-> FALSE]
    ELSE IF parent = RootId THEN [st |-> "ok", val |-> TRUE]
    ELSE IF options.enable_cxx_namespaces \/ ~IsModule(its[parent])
        THEN [st |-> "ok", val |-> FALSE]
    ELSE IF parent \in seen THEN [st |-> "cycle", val |-> FALSE]
    ELSE ToplevelLoop(its, its[parent].parent_id, seen \cup {parent})

\* Item::is_toplevel
IsToplevel(its, id) ==
    IF options.enable_cxx_namespaces /\ IsModule(its[id]) /\ id # RootId
        THEN [st |-> "ok", val |-> FALSE]
        ELSE ToplevelLoop(its, its[id].parent_id, {})

-----------------------------------------------------------------------------
(* Strings *)

Digit == <<"0", "1", "2", "3", "4", "5", "6", "7", "8", "9">>

\* usize::to_string, format!("{}", n)
RECURSIVE Decimal(_)
Decimal(n) ==
    IF n < 10 THEN Digit[n + 1] ELSE Decimal(n \div 10) \o Digit[(n % 10) + 1]

\* [String]::join(sep)
RECURSIVE Join(_, _)
Join(strs, sep) ==
    IF strs = <<>> THEN ""
    ELSE IF Len(strs) = 1 THEN strs[1]
    ELSE strs[1] \o sep \o Join(Tail(strs), sep)

\* Vec::reverse
Range(s) == {s[k] : k \in 1 .. Len(s)}

Reverse(s) == [k \in 1 .. Len(s) |-> s[Len(s) + 1 - k]]

\* The target language's reserved words the model's names can hit.
RustKeywords == {"fn", "type"}

\* ctx.rust_mangle(name)
RustMangle(name) == IF name \in RustKeywords THEN name \o "_" ELSE name

-----------------------------------------------------------------------------
(* Naming *)

\* Item::local_id
LocalId(its, id) ==
    IF its[id].local_id # NoId THEN Ok(its[id].local_id, its)
    ELSE LET parent == its[id].parent_id IN
         IF ~Present(its, parent) THEN Fail("panic", its)
         ELSE LET local_id == its[parent].next_child_local_id
                  its1 == [its EXCEPT ![parent].next_child_local_id = local_id + 1]
                  its2 == [its1 EXCEPT ![id].local_id = local_id]
              IN  Ok(local_id, its2)

\* .to_string() of the local id, when there is one
DecimalOf(r) == IF r.st # "ok" THEN r ELSE Ok(Decimal(r.val), r.its)

\* Item::exposed_id
ExposedId(its, id) ==
    IF its[id].kind = "Type" /\ its[id].tkind \in {"Comp", "Enum"}
        THEN DecimalOf(LocalId(its, id))
        ELSE Ok("id_" \o Decimal(id), its)

\* Item::name_target: the loop from `item` on, for the item `self`.
RECURSIVE NameTargetLoop(_, _, _, _)
NameTargetLoop(its, self, item, targets_seen) ==
    IF item \in targets_seen THEN Fail("cycle", its)
    ELSE IF its[self].use_instead_of # <<>> THEN Ok(self, its)
    ELSE IF its[item].kind = "Type"
            /\ its[item].tkind \in {"ResolvedTypeRef", "TemplateInstantiation"}
        THEN IF ~Present(its, its[item].refs[1]) THEN Fail("panic", its)
             ELSE NameTargetLoop(its, self, its[item].refs[1],
                                 targets_seen \cup {item})
    ELSE Ok(item, its)

\* Item::name_target
NameTarget(its, id) == NameTargetLoop(its, id, id, {})

\* .filter(..).position(|c| c == id) over s: the rank (from 0) of id among
\* the elements of s that are in kept, NoId when it is not among them.
RECURSIVE PositionIn(_, _, _, _)
PositionIn(s, kept, id, n) ==
    IF s = <<>> THEN NoId
    ELSE IF Head(s) \notin kept THEN PositionIn(Tail(s), kept, id, n)
    ELSE IF Head(s) = id THEN n
    ELSE PositionIn(Tail(s), kept, id, n + 1)

\* Item::overload_index; NoId is None.
OverloadIndex(its, id) ==
    IF its[id].kind # "Function" THEN Ok(NoId, its)
    ELSE LET parent == its[id].parent_id IN
         IF ~Present(its, parent) THEN Fail("panic", its)
         ELSE IF ~(its[parent].kind = "Type" /\ its[parent].tkind = "Comp")
             THEN Ok(NoId, its)
         ELSE LET constructors == its[parent].constructors
                  methods == its[parent].methods
                  ctor == PositionIn(constructors, Range(constructors), id, 0)
                  \* expect_function() on every method the filter looks at
                  bad == \E k \in 1 .. Len(methods) :
                            ~Present(its, methods[k])
                                \/ its[methods[k]].kind # "Function"
                  same_name == {m \in Range(methods) : its[m].name = its[id].name}
              IN  IF ctor # NoId THEN Ok(ctor, its)
                  ELSE IF bad THEN Fail("panic", its)
                  ELSE Ok(PositionIn(methods, same_name, id, 0), its)

\* format!("_bindgen_ty_{}", self.exposed_id(ctx)) and its like
Prefixed(prefix, r) == IF r.st # "ok" THEN r ELSE Ok(prefix \o r.val, r.its)

\* The function's name with its overload index r, be it 0
OverloadedFromZero(its, name, r) ==
    IF r.st # "ok" THEN r
    ELSE IF r.val # NoId THEN Ok(name \o Decimal(r.val), its)
    ELSE Ok(name, its)

\* The function's name, with its overload index r when that is above 0
Overloaded(its, name, r) ==
    IF r.st # "ok" THEN r
    ELSE IF r.val # NoId /\ r.val > 0 THEN Ok(name \o Decimal(r.val), its)
    ELSE Ok(name, its)

\* Item::base_name
BaseName(its, id) ==
    LET it == its[id] IN
    IF it.use_instead_of # <<>>
        THEN Ok(it.use_instead_of[Len(it.use_instead_of)], its)
    ELSE IF it.kind = "Var" THEN Ok(it.name, its)
    ELSE IF it.kind = "Module"
        THEN IF it.name # NoneStr THEN Ok(it.name, its)
             ELSE Prefixed("_bindgen_mod_", ExposedId(its, id))
    ELSE IF it.kind = "Type"
        THEN IF it.tkind = "ResolvedTypeRef" THEN Fail("panic", its)
             ELSE IF it.name # NoneStr THEN Ok(it.name, its)
             ELSE Prefixed("_bindgen_ty_", ExposedId(its, id))
    ELSE Overloaded(its, it.name, OverloadIndex(its, id))

\* No item is taken for a template type parameter.
NeverNamed(it) == FALSE

\* target.is_named(ctx, &()): the item is a template type parameter.
IsNamed(it) == it.kind = "Type" /\ it.tkind = "Named"

\* The iterator chain of Item::real_canonical_name over the ancestors of
\* `item`: filter out the root, take_while not a module (within namespaces),
\* map to the base name of the name target, filter out the empty names.  The
\* chain is lazy: it asks for one ancestor at a time and stops at the first
\* one take_while refuses.  AncestorNamesOf has the name target t of the
\* ancestor in hand, AncestorNamesWith its base name b.
RECURSIVE AncestorNames(_, _, _, _, _)
RECURSIVE AncestorNamesOf(_, _, _, _, _, _)
RECURSIVE AncestorNamesWith(_, _, _, _, _)
AncestorNamesWith(next, seen, within_namespaces, names, b) ==
    IF b.st # "ok" THEN b
    ELSE AncestorNames(b.its, next, seen, within_namespaces,
                       IF b.val = "" THEN names ELSE Append(names, b.val))

AncestorNamesOf(its, next, seen, within_namespaces, names, t) ==
    IF t.st # "ok" THEN t
    ELSE AncestorNamesWith(next, seen, within_namespaces, names,
                           BaseName(its, t.val))

AncestorNames(its, item, seen, within_namespaces, names) ==
    IF ~Present(its, item) THEN Fail("panic", its)
    ELSE IF its[item].parent_id = item THEN Ok(names, its)
    ELSE IF item \in seen THEN Fail("cycle", its)
    ELSE IF item = RootId
        THEN AncestorNames(its, its[item].parent_id, seen \cup {item},
                           within_namespaces, names)
    ELSE IF within_namespaces /\ IsModule(its[item]) THEN Ok(names, its)
    ELSE AncestorNamesOf(its, its[item].parent_id, seen \cup {item},
                         within_namespaces, names, NameTarget(its, item))

\* The ancestors' names joined as the iterator yields them, innermost first
MangledInnermostFirst(base_name, a) ==
    IF a.st # "ok" THEN a
    ELSE Ok(RustMangle(Join(a.val
                                \o (IF base_name = "" THEN <<>> ELSE <<base_name>>),
                            "_")),
            a.its)

\* names.reverse(); names.push(base_name); ctx.rust_mangle(names.join("_"))
Mangled(base_name, a) ==
    IF a.st # "ok" THEN a
    ELSE Ok(RustMangle(Join(Reverse(a.val)
                                \o (IF base_name = "" THEN <<>> ELSE <<base_name>>),
                            "_")),
            a.its)

\* Item::real_canonical_name from the base name b of its target on
NamedOrMangled(target, within_namespaces, b) ==
    IF b.st # "ok" THEN b
    ELSE IF IsNamed(target) THEN b
    ELSE Mangled(b.val, AncestorNames(b.its, target.parent_id, {},
                                      within_namespaces, <<>>))

\* Item::real_canonical_name from its name target t on
RealCanonicalNameOf(its, within_namespaces, t) ==
    IF t.st # "ok" THEN t
    ELSE LET target == its[t.val] IN
         IF target.use_instead_of # <<>>
             THEN IF options.enable_cxx_namespaces
                      THEN Ok(target.use_instead_of[Len(target.use_instead_of)], its)
                      ELSE Ok(Join(target.use_instead_of, "_"), its)
         ELSE NamedOrMangled(target, within_namespaces, BaseName(its, t.val))

\* Item::real_canonical_name, with opt.within_namespaces
RealCanonicalName(its, id, within_namespaces) ==
    RealCanonicalNameOf(its, within_namespaces, NameTarget(its, id))

\* The name r is returned and the cache is left as it was.
NotCached(id, r) == r

\* *self.canonical_name_cache.borrow_mut() = Some(name)
Cached(id, r) ==
    IF r.st # "ok" THEN r
    ELSE Ok(r.val, [r.its EXCEPT ![id].canonical_name_cache = r.val])

\* impl ItemCanonicalName for Item: canonical_name
CanonicalName(its, id) ==
    IF its[id].canonical_name_cache # NoneStr
        THEN Ok(its[id].canonical_name_cache, its)
    ELSE Cached(id, RealCanonicalName(its, id,
                        options.enable_cxx_namespaces
                            \/ options.disable_name_namespacing))

-----------------------------------------------------------------------------
(* Paths *)

\* The filter and map of Item::canonical_path over the ancestors `ids` of the
\* name target `target` (root appended), in the order the iterator yields
\* them.  PathNamesOf has the name target t of the ancestor in hand,
\* PathNamesWith its name n.
RECURSIVE PathNames(_, _, _, _)
RECURSIVE PathNamesOf(_, _, _, _, _)
RECURSIVE PathNamesWith(_, _, _, _)
PathNamesWith(ids, target, path, n) ==
    IF n.st # "ok" THEN n
    ELSE PathNames(n.its, ids, target, Append(path, n.val))

PathNamesOf(its, ids, target, path, t) ==
    IF t.st # "ok" THEN t
    ELSE PathNamesWith(ids, target, path, RealCanonicalName(its, t.val, TRUE))

PathNames(its, ids, target, path) ==
    IF ids = <<>> THEN Ok(path, its)
    ELSE IF Head(ids) = target
            \/ (IsModule(its[Head(ids)])
                /\ (~its[Head(ids)].is_inline
                    \/ options.conservative_inline_namespaces))
        THEN PathNamesOf(its, Tail(ids), target, path, NameTarget(its, Head(ids)))
    ELSE PathNames(its, Tail(ids), target, path)

\* The path as the iterator yields it, the target first
NotReversed(r) == r

\* path.reverse()
Reversed(r) == IF r.st # "ok" THEN r ELSE Ok(Reverse(r.val), r.its)

\* The replacement's path under the root module's name r
Replaced(path, r) == IF r.st # "ok" THEN r ELSE Ok(<<r.val>> \o path, r.its)

\* Item::canonical_path along the ancestors a of its name target
CanonicalPathAlong(its, target, a) ==
    IF a.st # "ok" THEN Fail(a.st, its)
    ELSE Reversed(PathNames(its, a.ids \o <<RootId>>, target, <<>>))

\* Item::canonical_path from its name target t on
CanonicalPathOf(its, t) ==
    IF t.st # "ok" THEN t
    ELSE CanonicalPathAlong(its, t.val, Ancestors(its, t.val))

\* impl ItemCanonicalPath for Item: canonical_path
CanonicalPath(its, id) ==
    IF its[id].use_instead_of # <<>>
        THEN Replaced(its[id].use_instead_of, RealCanonicalName(its, RootId, FALSE))
    ELSE CanonicalPathOf(its, NameTarget(its, id))

\* The canonical path p, whatever the options
NamespaceAwareAlways(its, p) == p

\* Item::namespace_aware_canonical_path of the canonical path p
NamespaceAwareOf(its, p) ==
    IF p.st # "ok" THEN p
    ELSE IF options.enable_cxx_namespaces THEN p
    ELSE IF options.disable_name_namespacing
        THEN IF p.val = <<>> THEN Fail("panic", its)
             ELSE Ok(<<p.val[Len(p.val)]>>, p.its)
    ELSE IF p.val = <<>> THEN Fail("panic", its)
    ELSE Ok(<<Join(Tail(p.val), "_")>>, p.its)

\* impl ItemCanonicalPath for Item: namespace_aware_canonical_path
NamespaceAwareCanonicalPath(its, id) ==
    NamespaceAwareOf(its, CanonicalPath(its, id))

\* ctx.hidden_by_name(path, id), ctx.opaque_by_name(path): the path below the
\* root, joined with "::", is one of the option's names.
MatchesByName(names, path) ==
    path # <<>> /\ Join(Tail(path), "::") \in names

\* Whether the path p is one of the option's names
Matches(names, p) ==
    IF p.st # "ok" THEN p ELSE Ok(MatchesByName(names, p.val), p.its)

\* Item::is_hidden
IsHidden(its, id) ==
    IF its[id].hide THEN Ok(TRUE, its)
    ELSE Matches(options.hidden_types, CanonicalPath(its, id))

\* Item::is_opaque
IsOpaque(its, id) ==
    IF its[id].opaque THEN Ok(TRUE, its)
    ELSE IF its[id].kind = "Type" /\ its[id].tkind = "Opaque" THEN Ok(TRUE, its)
    ELSE Matches(options.opaque_types, CanonicalPath(its, id))

-----------------------------------------------------------------------------
(* Tracing *)

\* Type::should_be_traced_unconditionally
ShouldBeTracedUnconditionally(it) == it.tkind = "ResolvedTypeRef"

\* Type::trace: one structural edge to every item the type refers to.
TypeTrace(it) ==
    {[to |-> r, kind |-> "Generic"] :
        r \in Range(it.refs) \cup Range(it.constructors) \cup Range(it.methods)}

\* The Type arm of Item::trace for a type that is not traced
\* unconditionally, o being is_opaque's answer
TraceType(it, o) ==
    IF o.st # "ok" THEN o
    ELSE IF ~o.val THEN Ok(TypeTrace(it), o.its)
    ELSE Ok({}, o.its)

\* Item::trace that stops at every opaque type, a resolved reference included.
TraceItemStopsAtOpaque(id, h) ==
    IF h.st # "ok" THEN h
    ELSE IF h.val THEN Ok({}, h.its)
    ELSE LET it == h.its[id] IN
         IF it.kind = "Type" THEN TraceType(it, IsOpaque(h.its, id))
         ELSE IF it.kind = "Function"
             THEN Ok({[to |-> it.refs[1], kind |-> "Generic"]}, h.its)
         ELSE IF it.kind = "Var"
             THEN Ok({[to |-> it.refs[1], kind |-> "VarType"]}, h.its)
         ELSE Ok({}, h.its)

\* Item::trace, h being is_hidden's answer.  The value is the set of edges
\* the tracer is shown.
TraceItem(id, h) ==
    IF h.st # "ok" THEN h
    ELSE IF h.val THEN Ok({}, h.its)
    ELSE LET it == h.its[id] IN
         IF it.kind = "Type"
             THEN IF ShouldBeTracedUnconditionally(it)
                      THEN Ok(TypeTrace(it), h.its)
                      ELSE TraceType(it, IsOpaque(h.its, id))
         ELSE IF it.kind = "Function"
             THEN Ok({[to |-> it.refs[1], kind |-> "Generic"]}, h.its)
         ELSE IF it.kind = "Var"
             THEN Ok({[to |-> it.refs[1], kind |-> "VarType"]}, h.its)
         ELSE Ok({}, h.its)

\* impl Trace for Item: trace
Trace(its, id) == TraceItem(id, IsHidden(its, id))

-----------------------------------------------------------------------------
(* The initial state: a context that holds its root module only. *)

Outcome(op, arg, st, val) == [op |-> op, arg |-> arg, st |-> st, val |-> val]

\* BindgenContext::new: the root module is the first item, its own parent.
InitWith(Options) ==
    /\ items = (RootId :> ItemNew(RootId, NoAnnotations, ModuleKind("root", FALSE)))
    /\ next_item_id = RootId + 1
    /\ replacements = {}
    /\ collected_typerefs = FALSE
    /\ codegen = FALSE
    /\ options \in Options
    /\ ret = Outcome("new", NoId, "ok", NoneStr)
    /\ dstack = <<>>
    /\ currently_parsed_types = <<>>

\* A panic ends the program; a cycle hangs it or fails a debug assertion.
Running == ret.st = "ok" /\ dstack = <<>>

Parsing == Running /\ ~codegen

\* The ids minted and not yet given an item: the potential ids a caller holds.
Reserved == Minted \ DOMAIN items

-----------------------------------------------------------------------------
(* Parser operations.  parent_id.unwrap_or(ctx.current_module()) is a module *)
(* or a record of the context, or the id of the record the caller is still  *)
(* parsing, which gets its item after its members do; it is the scope the   *)
(* declaration is in, never a scope inside the declaration.                 *)

\* Walking up from p reaches id within n steps: p is declared inside id.
RECURSIVE Inside(_, _, _, _)
Inside(its, p, id, n) ==
    \/ p = id
    \/ /\ n > 0
       /\ Present(its, p)
       /\ its[p].parent_id # p
       /\ Inside(its, its[p].parent_id, id, n - 1)

RelevantParents(id) ==
    {p \in Minted :
        /\ ~Inside(items, p, id, Cardinality(DOMAIN items))
        /\ ~Present(items, p) \/ IsModule(items[p]) \/ IsRecord(items[p])}

\* ctx.next_item_id(), by a caller that goes on to parse a type with that
\* id, in a context of ids up to max
NextItemIdUpTo(max) ==
    /\ Parsing
    /\ next_item_id <= max
    /\ next_item_id' = next_item_id + 1
    /\ ret' = Outcome("next_item_id", next_item_id, "ok", NoneStr)
    /\ UNCHANGED <<items, replacements, collected_typerefs, codegen, options,
                   dstack, currently_parsed_types>>

NextItemId == NextItemIdUpTo(MaxId)

\* Item::from_ty_with_id with the id `id`: the outcomes that end in an item.
\* Kinds are the types Type::from_clang_ty may decode, Annots the annotations
\* the declaration may carry.
FromTyWithIdNew(id, Kinds, Annots) ==
    \E relevant_parent_id \in RelevantParents(id), k \in Kinds, annotations \in Annots :
        /\ items' = AddItem(items, id, ItemNew(relevant_parent_id, annotations, k))
        /\ replacements' = IF annotations.use_instead_of # <<>>
                               THEN replacements \cup {id} ELSE replacements
        /\ ret' = Outcome("from_ty_with_id", id, "ok", id)

\* Item::new_opaque_type
NewOpaqueType(with_id) ==
    /\ items' = AddItem(items, with_id,
                        ItemNew(RootId, NoAnnotations,
                                TypeKindOf("Opaque", NoneStr, <<>>)))
    /\ ret' = Outcome("new_opaque_type", with_id, "ok", with_id)

\* Item::named_type for a template parameter not yet registered
NamedTypeNew(id) ==
    /\ items' = AddItem(items, id,
                        ItemNew(RootId, NoAnnotations, TypeKindOf("Named", "T", <<>>)))
    /\ ret' = Outcome("named_type", id, "ok", id)

\* Item::from_ty_with_id
FromTyWithId(Kinds, Annots) ==
    /\ Parsing
    /\ \E id \in Reserved :
        \/ FromTyWithIdNew(id, Kinds, Annots)
        \/ NewOpaqueType(id) /\ UNCHANGED replacements
        \/ NamedTypeNew(id) /\ UNCHANGED replacements
        \/ \* already resolved, Continue, Recurse: no item
           /\ ret' = Outcome("from_ty_with_id", id, "ok", NoId)
           /\ UNCHANGED <<items, replacements>>
    /\ UNCHANGED <<next_item_id, collected_typerefs, codegen, options, dstack, currently_parsed_types>>

\* A reference to `target` that needs no resolution
ResolvedAtOnce(target) == TypeKindOf("ResolvedTypeRef", NoneStr, <<target>>)

\* Type::new(None, None, TypeKind::UnresolvedTypeRef(ty, location, parent_id),
\* is_const): the placeholder for the type that `target` will hold
UnresolvedTypeRef(target) == TypeKindOf("UnresolvedTypeRef", NoneStr, <<target>>)

\* The flag is never seen set.
TyperefsNeverCollected == FALSE

\* ctx.collected_typerefs(), as Item::from_ty_or_ref_with_id reads it
TyperefsCollected == collected_typerefs

\* ctx.builtin_or_resolved_ty(..) is Some(ty), or the full parse finds the
\* type already resolved: the call returns the id of a type of the context.
KnownType(potential_id) ==
    \E ty \in {t \in DOMAIN items : items[t].kind = "Type"} :
        /\ items' = items
        /\ ret' = Outcome("from_ty_or_ref_with_id", potential_id, "ok", ty)
        /\ UNCHANGED replacements

\* Item::from_ty_or_ref_with_id.  The placeholder keeps the id its type's
\* declaration will have.
FromTyOrRefWithId(Kinds, Annots) ==
    /\ Parsing
    /\ \E potential_id \in Reserved :
        IF TyperefsCollected
            THEN \/ FromTyWithIdNew(potential_id, Kinds, Annots)
                 \/ KnownType(potential_id)
                 \/ NewOpaqueType(potential_id) /\ UNCHANGED replacements
            ELSE \/ KnownType(potential_id)
                 \/ \E relevant_parent_id \in RelevantParents(potential_id),
                       target \in Minted \ {potential_id} :
                        /\ items' = AddItem(items, potential_id,
                                        ItemNew(relevant_parent_id, NoAnnotations,
                                                UnresolvedTypeRef(target)))
                        /\ ret' = Outcome("from_ty_or_ref_with_id", potential_id,
                                          "ok", potential_id)
                        /\ UNCHANGED replacements
    /\ UNCHANGED <<next_item_id, collected_typerefs, codegen, options, dstack, currently_parsed_types>>

\* Item::parse: a Module, Function or Var item, or a type through from_ty,
\* under an id the call mints, in a context of ids up to max.
ParseUpTo(max, Kinds, TypeKinds, Annots) ==
    /\ Parsing
    /\ next_item_id <= max
    /\ next_item_id' = next_item_id + 1
    /\ \/ \E relevant_parent_id \in RelevantParents(next_item_id), k \in Kinds,
               annotations \in Annots :
            /\ items' = AddItem(items, next_item_id,
                                ItemNew(relevant_parent_id, annotations, k))
            /\ ret' = Outcome("parse", next_item_id, "ok", next_item_id)
            /\ UNCHANGED replacements
       \/ FromTyWithIdNew(next_item_id, TypeKinds, Annots)
    /\ UNCHANGED <<collected_typerefs, codegen, options, dstack, currently_parsed_types>>

Parse(Kinds, TypeKinds, Annots) == ParseUpTo(MaxId, Kinds, TypeKinds, Annots)

\* Item::named_type without with_id, for a template parameter not yet
\* registered whose spelling is one of Names, in a context of ids up to max
NamedType(max, Names) ==
    /\ Parsing
    /\ next_item_id <= max
    /\ next_item_id' = next_item_id + 1
    /\ \E name \in Names :
        items' = AddItem(items, next_item_id,
                         ItemNew(RootId, NoAnnotations, TypeKindOf("Named", name, <<>>)))
    /\ ret' = Outcome("named_type", next_item_id, "ok", next_item_id)
    /\ UNCHANGED <<replacements, collected_typerefs, codegen, options, dstack, currently_parsed_types>>

\* Item::builtin_type
BuiltinType ==
    /\ Parsing
    /\ next_item_id <= MaxId
    /\ next_item_id' = next_item_id + 1
    /\ \E tkind \in {"Void", "Int"} :
        items' = AddItem(items, next_item_id,
                         ItemNew(RootId, NoAnnotations, TypeKindOf(tkind, NoneStr, <<>>)))
    /\ ret' = Outcome("builtin_type", next_item_id, "ok", next_item_id)
    /\ UNCHANGED <<replacements, collected_typerefs, codegen, options, dstack, currently_parsed_types>>

\* Item::set_parent_for_replacement, on an item registered as a replacement,
\* with the module or record it is to be generated in
SetParentForReplacement ==
    /\ Parsing
    /\ \E item \in replacements \cap DOMAIN items,
          id \in {p \in DOMAIN items : IsModule(items[p]) \/ IsRecord(items[p])} :
        /\ items' = [items EXCEPT ![item].parent_id = id]
        /\ ret' = Outcome("set_parent_for_replacement", item, "ok", id)
    /\ UNCHANGED <<next_item_id, replacements, collected_typerefs, codegen,
                   options, dstack, currently_parsed_types>>

\* The typeref-resolution pass: every placeholder becomes, under the same id,
\* a reference to its resolved target, or an opaque type when there is none.
ResolveTyperefs ==
    /\ Parsing
    /\ ~collected_typerefs
    /\ collected_typerefs' = TRUE
    /\ items' = [i \in DOMAIN items |->
                    IF items[i].tkind # "UnresolvedTypeRef" THEN items[i]
                    ELSE IF Present(items, items[i].refs[1])
                        THEN [items[i] EXCEPT !.tkind = "ResolvedTypeRef"]
                        ELSE [items[i] EXCEPT !.tkind = "Opaque", !.refs = <<>>]]
    /\ ret' = Outcome("resolve_typerefs", NoId, "ok", NoneStr)
    /\ UNCHANGED <<next_item_id, replacements, codegen, options, dstack, currently_parsed_types>>

\* The context enters the codegen phase.
BeginCodegen ==
    /\ Parsing
    /\ collected_typerefs
    /\ codegen' = TRUE
    /\ ret' = Outcome("codegen", NoId, "ok", NoneStr)
    /\ UNCHANGED <<items, next_item_id, replacements, collected_typerefs,
                   options, dstack, currently_parsed_types>>

-----------------------------------------------------------------------------
(* Queries *)

\* A query `r` of operation `op` on item `id`: its caches stay when it ends
\* "ok", and its outcome is recorded.
Query(op, id, r) ==
    /\ items' = IF r.st = "ok" THEN r.its ELSE items
    /\ ret' = Outcome(op, id, r.st, r.val)
    /\ UNCHANGED <<next_item_id, replacements, collected_typerefs, codegen,
                   options, dstack, currently_parsed_types>>

\* id.ancestors(ctx), iterated to its end
DoAncestors ==
    /\ Running
    /\ \E id \in DOMAIN items :
        LET a == Ancestors(items, id) IN
        /\ ret' = Outcome("ancestors", id, a.st, a.ids)
        /\ UNCHANGED <<items, next_item_id, replacements, collected_typerefs,
                       codegen, options, dstack, currently_parsed_types>>

\* item.is_toplevel(ctx)
DoIsToplevel ==
    /\ Running
    /\ \E id \in DOMAIN items :
        LET t == IsToplevel(items, id) IN
        /\ ret' = Outcome("is_toplevel", id, t.st, t.val)
        /\ UNCHANGED <<items, next_item_id, replacements, collected_typerefs,
                       codegen, options, dstack, currently_parsed_types>>

\* item.local_id(ctx)
DoLocalId ==
    /\ Running /\ codegen
    /\ \E id \in DOMAIN items : Query("local_id", id, LocalId(items, id))

\* item.name_target(ctx)
DoNameTarget ==
    /\ Running /\ codegen
    /\ \E id \in DOMAIN items : Query("name_target", id, NameTarget(items, id))

\* item.base_name(ctx)
DoBaseName ==
    /\ Running /\ codegen
    /\ \E id \in DOMAIN items : Query("base_name", id, BaseName(items, id))

\* item.name(ctx).get() and item.name(ctx).within_namespaces().get()
DoRealCanonicalName ==
    /\ Running /\ codegen
    /\ \E id \in DOMAIN items :
        \/ Query("real_canonical_name", id, RealCanonicalName(items, id, FALSE))
        \/ Query("real_canonical_name_within_namespaces", id,
                 RealCanonicalName(items, id, TRUE))

\* item.canonical_name(ctx)
DoCanonicalName ==
    /\ Running /\ codegen
    /\ \E id \in DOMAIN items : Query("canonical_name", id, CanonicalName(items, id))

\* item.canonical_path(ctx)
DoCanonicalPath ==
    /\ Running /\ codegen
    /\ \E id \in DOMAIN items : Query("canonical_path", id, CanonicalPath(items, id))

\* item.namespace_aware_canonical_path(ctx)
DoNamespaceAwareCanonicalPath ==
    /\ Running /\ codegen
    /\ \E id \in DOMAIN items :
        Query("namespace_aware_canonical_path", id,
              NamespaceAwareCanonicalPath(items, id))

\* item.trace(ctx, tracer, &())
DoTrace ==
    /\ Running /\ codegen
    /\ \E id \in DOMAIN items : Query("trace", id, Trace(items, id))

-----------------------------------------------------------------------------
(* Derive inference, one call or return at a time.  A frame of dstack is a  *)
(* call of can_derive_<q> on an item: "enter" at its first line, "members"  *)
(* inside the type's own query about to ask its k-th member, "wait" while   *)
(* that member's call runs, "exit" with its result `res` in hand.           *)

DeriveQueries == {"debug", "default", "copy", "copy_in_array"}

Frame(id, q) == [item |-> id, q |-> q, pc |-> "enter", k |-> 1, res |-> FALSE]

Top == dstack[Len(dstack)]

SetTop(f) == [dstack EXCEPT ![Len(dstack)] = f]

Pop == SubSeq(dstack, 1, Len(dstack) - 1)

\* The re-entrance flag Item::can_derive_<q> tests and sets, or "" when the
\* function has none.
CycleFlag(q) ==
    CASE q = "debug" -> "detect_derive_debug_cycle"
      [] q = "copy" -> "detect_derive_copy_cycle"
      [] OTHER -> ""

FlagSet(it, q) ==
    CASE CycleFlag(q) = "detect_derive_debug_cycle" -> it.detect_derive_debug_cycle
      [] CycleFlag(q) = "detect_derive_copy_cycle" -> it.detect_derive_copy_cycle
      [] OTHER -> FALSE

WithFlag(its, id, q, b) ==
    CASE CycleFlag(q) = "detect_derive_debug_cycle" ->
            [its EXCEPT ![id].detect_derive_debug_cycle = b]
      [] CycleFlag(q) = "detect_derive_copy_cycle" ->
            [its EXCEPT ![id].detect_derive_copy_cycle = b]
      [] OTHER -> its

\* ctx.options().derive_<q>, for the queries that consult it
DeriveOption(q) ==
    CASE q = "debug" -> options.derive_debug
      [] q = "default" -> options.derive_default
      [] OTHER -> TRUE

\* ty.layout(ctx).map_or(d, |l| l.opaque().can_derive_<q>(ctx, ())): d without
\* a layout, else whether the blob of that size derives the trait.
OpaqueDerive(it, q) ==
    CASE it.layout = "none" -> q # "default"
      [] it.layout = "small" -> TRUE
      [] OTHER -> FALSE

\* The items Type::can_derive_<q> asks in turn: the members of a record, the
\* target of a reference.
DeriveMembersOf(it) ==
    IF it.tkind \in {"Comp", "ResolvedTypeRef", "TemplateInstantiation"}
        THEN it.refs ELSE <<>>

DeriveName(q) == "can_derive_" \o q

\* The call f returns val to the calls `stack` below it.  The outermost
\* call's value is the query's outcome; an inner call's value goes into the
\* conjunction over the members its caller is in: true moves on to the next
\* member, false ends it.
Return(stack, f, val) ==
    IF stack = <<>>
        THEN /\ dstack' = <<>>
             /\ ret' = Outcome(DeriveName(f.q), f.item, "ok", val)
        ELSE /\ dstack' = [stack EXCEPT ![Len(stack)] =
                              IF val THEN [@ EXCEPT !.pc = "members", !.k = @ + 1]
                              ELSE [@ EXCEPT !.pc = "exit", !.res = FALSE]]
             /\ UNCHANGED ret

\* item.can_derive_<q>(ctx, ()), called from outside
DeriveCall ==
    /\ Running /\ codegen
    /\ \E id \in DOMAIN items, q \in DeriveQueries :
        dstack' = <<Frame(id, q)>>
    /\ ret' = Outcome("call", NoId, "ok", NoneStr)
    /\ UNCHANGED <<items, next_item_id, replacements, collected_typerefs,
                   codegen, options,
                   currently_parsed_types>>

Deriving == ret.st = "ok" /\ dstack # <<>>

\* Item::can_derive_<q> from its first line to the call of the type's query
DeriveEnter ==
    /\ Deriving /\ Top.pc = "enter"
    /\ LET f == Top
           it == items[f.item]
       IN
       IF FlagSet(it, f.q)
           THEN /\ Return(Pop, f, TRUE)
                /\ UNCHANGED items
       ELSE LET its1 == WithFlag(items, f.item, f.q, TRUE) IN
            IF ~DeriveOption(f.q) \/ it.kind # "Type"
                THEN /\ items' = its1
                     /\ dstack' = SetTop([f EXCEPT !.pc = "exit", !.res = FALSE])
                     /\ UNCHANGED ret
            ELSE LET o == IsOpaque(its1, f.item) IN
                 IF o.st # "ok"
                     THEN /\ ret' = Outcome(DeriveName(f.q), f.item, o.st, NoneStr)
                          /\ UNCHANGED <<items, dstack, currently_parsed_types>>
                 ELSE /\ items' = o.its
                      /\ dstack' = SetTop(IF o.val
                                    THEN [f EXCEPT !.pc = "exit",
                                                   !.res = OpaqueDerive(it, f.q)]
                                    ELSE [f EXCEPT !.pc = "members"])
                      /\ UNCHANGED ret
    /\ UNCHANGED <<next_item_id, replacements, collected_typerefs, codegen, options,
                   currently_parsed_types>>

\* The type's query asks its next member, or has asked them all.
DeriveMembers ==
    /\ Deriving /\ Top.pc = "members"
    /\ LET f == Top
           members == DeriveMembersOf(items[f.item])
       IN
       IF f.k > Len(members)
           THEN /\ dstack' = SetTop([f EXCEPT !.pc = "exit", !.res = TRUE])
                /\ UNCHANGED ret
       ELSE IF ~Present(items, members[f.k])
           THEN /\ ret' = Outcome(DeriveName(f.q), f.item, "panic", NoneStr)
                /\ UNCHANGED dstack
       ELSE IF Len(dstack) >= MaxDepth
           THEN /\ ret' = Outcome(DeriveName(f.q), f.item, "overflow", NoneStr)
                /\ UNCHANGED dstack
       ELSE /\ dstack' = Append(SetTop([f EXCEPT !.pc = "wait"]),
                                Frame(members[f.k], f.q))
            /\ UNCHANGED ret
    /\ UNCHANGED <<items, next_item_id, replacements, collected_typerefs,
                   codegen, options,
                   currently_parsed_types>>

\* Item::can_derive_<q> resets its flag and returns its result.
DeriveExit ==
    /\ Deriving /\ Top.pc = "exit"
    /\ items' = WithFlag(items, Top.item, Top.q, FALSE)
    /\ Return(Pop, Top, Top.res)
    /\ UNCHANGED <<next_item_id, replacements, collected_typerefs, codegen, options,
                   currently_parsed_types>>

-----------------------------------------------------------------------------
(* Specifications *)

Options(ns, dnn, cin, dd, df, hidden, opaque) ==
    [enable_cxx_namespaces |-> ns, disable_name_namespacing |-> dnn,
     conservative_inline_namespaces |-> cin,
     derive_debug |-> dd, derive_default |-> df,
     hidden_types |-> hidden, opaque_types |-> opaque]

Annotated(hide, opaque, path) ==
    [hide |-> hide, opaque |-> opaque, use_instead_of |-> path]

\* The ids a type may refer to: the types of the context and the ids minted
\* for types to come.
TypeIds == {t \in Minted : ~Present(items, t) \/ items[t].kind = "Type"}

(* Naming: namespaces and anonymous records, parsed in source order, then   *)
(* the codegen queries in any order.                                        *)

NamingOptions ==
    {Options(ns, dnn, FALSE, TRUE, TRUE, {}, {}) : ns \in BOOLEAN, dnn \in BOOLEAN}

NamingKinds == {ModuleKind("ns", FALSE)}

NamingTypeKinds == {TypeKindOf("Comp", NoneStr, <<>>)}

Init == InitWith(NamingOptions)

Next ==
    \/ Parse(NamingKinds, NamingTypeKinds, {NoAnnotations})
    \/ ResolveTyperefs
    \/ BeginCodegen
    \/ DoCanonicalName
    \/ DoCanonicalPath
    \/ DoTrace
    \/ DeriveCall
    \/ DeriveEnter
    \/ DeriveMembers
    \/ DeriveExit

Spec == Init /\ [][Next]_vars

(* The item graph: every parser operation and the re-parenting of           *)
(* replacements, with the walks up the parent chain.                        *)

GraphOptions ==
    {Options(ns, FALSE, FALSE, TRUE, TRUE, {}, {}) : ns \in BOOLEAN}

GraphAnnots == {NoAnnotations, Annotated(FALSE, FALSE, <<"ns", "Fake">>)}

InitGraph == InitWith(GraphOptions)

NextGraph ==
    \/ NextItemId
    \/ Parse(NamingKinds, NamingTypeKinds, GraphAnnots)
    \/ FromTyWithId(NamingTypeKinds, GraphAnnots)
    \/ FromTyOrRefWithId(NamingTypeKinds, GraphAnnots)
    \/ BuiltinType
    \/ SetParentForReplacement
    \/ ResolveTyperefs
    \/ DoAncestors
    \/ DoIsToplevel

SpecGraph == InitGraph /\ [][NextGraph]_vars

(* Tracing: items of every kind, hidden or opaque by annotation, traced in  *)
(* the codegen phase.                                                       *)

TraceKinds ==
    {ModuleKind("ns", FALSE)}
        \cup {FunctionKind("f", t) : t \in TypeIds}
        \cup {VarKind("v", t) : t \in TypeIds}

TraceTypeKinds ==
    {TypeKindOf("Comp", "S", <<>>)}
        \cup {TypeKindOf("Comp", "S", <<t>>) : t \in TypeIds}
        \cup {TypeKindOf("ResolvedTypeRef", NoneStr, <<t>>) :
                t \in TypeIds \cap DOMAIN items}

TraceAnnots ==
    {Annotated(hide, opaque, <<>>) : hide \in BOOLEAN, opaque \in BOOLEAN}

TraceOptions ==
    {Options(FALSE, FALSE, FALSE, TRUE, TRUE, {}, opaque) : opaque \in {{}, {"S"}}}

InitTrace == InitWith(TraceOptions)

NextTrace ==
    \/ Parse(TraceKinds, TraceTypeKinds, TraceAnnots)
    \/ ResolveTyperefs
    \/ BeginCodegen
    \/ DoTrace

SpecTrace == InitTrace /\ [][NextTrace]_vars

(* Derive inference: records whose members are any types of the context,    *)
(* themselves and types still to come included.                             *)

DeriveKinds ==
    {TypeKindOf("Comp", NoneStr, <<>>)}
        \cup {TypeKindOf("Comp", NoneStr, <<t>>) : t \in Minted \ {RootId}}

DeriveOptions ==
    {Options(FALSE, FALSE, FALSE, dd, df, {}, {}) : dd \in BOOLEAN, df \in BOOLEAN}

InitDerive == InitWith(DeriveOptions)

NextDerive ==
    \/ NextItemId
    \/ FromTyWithId(DeriveKinds, {NoAnnotations, Annotated(FALSE, TRUE, <<>>)})
    \/ ResolveTyperefs
    \/ BeginCodegen
    \/ DeriveCall
    \/ DeriveEnter
    \/ DeriveMembers
    \/ DeriveExit

SpecDerive == InitDerive /\ [][NextDerive]_vars

-----------------------------------------------------------------------------
(* Properties *)

Cache(its, i) == its[i].canonical_name_cache

\* The item table as the codegen phase finds it: no cache set yet.
Fresh(its) ==
    [i \in DOMAIN its |->
        [its[i] EXCEPT !.local_id = NoId, !.next_child_local_id = 1,
                       !.canonical_name_cache = NoneStr]]

C1_ReturnsCached ==
    (ret.op = "canonical_name" /\ ret.st = "ok")
        => ret.val = Cache(items, ret.arg)

C1_CacheKept ==
    \A i \in DOMAIN items :
        Cache(items, i) # NoneStr => Cache(items', i) = Cache(items, i)

\* C1: in the codegen phase canonical_name(i) returns the string held in i's
\* canonical_name_cache, and no later step (a naming, path, trace or derive
\* query) changes a cache that is set: every call returns what the first did.
C1_CanonicalNameCached == [](C1_ReturnsCached) /\ [][C1_CacheKept]_vars

\* C1 witness: a path query has run on an anonymous record whose name was
\* cached before, and the cache still holds a name.
C1_Witness ==
    /\ codegen
    /\ ret.op = "canonical_path" /\ ret.st = "ok"
    /\ items[ret.arg].name = NoneStr
    /\ items[ret.arg].local_id # NoId
    /\ Cache(items, ret.arg) # NoneStr

\* C2: the names do not depend on the order of the first calls: whatever has
\* been asked before, an item's cached name is the name it gets when it is
\* the first item asked, and a path returned is the path of a first query.
C2_OrderIndependent ==
    /\ \A i \in DOMAIN items :
        Cache(items, i) # NoneStr
            => Cache(items, i) = CanonicalName(Fresh(items), i).val
    /\ (ret.op = "canonical_path" /\ ret.st = "ok")
            => ret.val = CanonicalPath(Fresh(items), ret.arg).val

\* Every parent id has its item.
NoDangling == \A i \in DOMAIN items : Present(items, items[i].parent_id)

\* C3: in a context whose parents are all inserted, ancestors(i) ends, on
\* the root module, having yielded i and then its successive parents, the
\* root not among them.
C3_AncestorsEndAtRoot ==
    NoDangling =>
        \A i \in DOMAIN items :
            LET a == Ancestors(items, i) IN
            /\ a.st = "ok"
            /\ a.at = RootId
            /\ i # RootId => (a.ids # <<>> /\ a.ids[1] = i)
            /\ \A k \in 1 .. Len(a.ids) :
                /\ a.ids[k] # RootId
                /\ k < Len(a.ids) => a.ids[k + 1] = items[a.ids[k]].parent_id

\* C4: a walk that reaches an id the context does not hold ends there and
\* does not fail.
C4_DanglingEndsWalk ==
    \A i \in DOMAIN items :
        LET a == Ancestors(items, i) IN
        ~Present(items, a.at) => a.st = "ok"

\* C5: in a context whose parents are all inserted, the root module is the
\* one item that is its own parent, and every other item's parent is a
\* module or a record.
C5_ParentInvariant ==
    NoDangling =>
        /\ {i \in DOMAIN items : items[i].parent_id = i} = {RootId}
        /\ IsModule(items[RootId])
        /\ \A i \in DOMAIN items \ {RootId} :
            LET parent == items[items[i].parent_id] IN
            IsModule(parent) \/ IsRecord(parent)

\* The parent chain from p reaches the root module, every item on the way
\* being in the context and a module (n bounds the length of the way).
RECURSIVE ReachesRootThroughModules(_, _, _)
ReachesRootThroughModules(its, p, n) ==
    \/ p = RootId
    \/ /\ n > 0
       /\ Present(its, p)
       /\ IsModule(its[p])
       /\ ReachesRootThroughModules(its, its[p].parent_id, n - 1)

ChainThroughModules(its, i) ==
    ReachesRootThroughModules(its, its[i].parent_id, Cardinality(DOMAIN its))

\* C6 as claimed: with namespaces on, a module is top-level iff it is the
\* root, and another item iff its parent chain reaches the root through
\* modules only.
C6_ToplevelThroughModules ==
    options.enable_cxx_namespaces =>
        \A i \in DOMAIN items :
            IsToplevel(items, i) =
                [st |-> "ok",
                 val |-> IF IsModule(items[i]) THEN i = RootId
                         ELSE ChainThroughModules(items, i)]

\* C6, amended: with namespaces on, a module is top-level iff it is the
\* root, and another item iff its parent is the root module.
C6_ToplevelChildOfRoot ==
    options.enable_cxx_namespaces =>
        \A i \in DOMAIN items :
            IsToplevel(items, i) =
                [st |-> "ok",
                 val |-> IF IsModule(items[i]) THEN i = RootId
                         ELSE items[i].parent_id = RootId]

\* C6 witness: with namespaces on, is_toplevel has answered false for a
\* record inside a namespace that is itself a child of the root.
C6_Witness ==
    /\ options.enable_cxx_namespaces
    /\ ret.op = "is_toplevel" /\ ret.st = "ok" /\ ret.val = FALSE
    /\ ~IsModule(items[ret.arg])
    /\ LET p == items[ret.arg].parent_id IN
       /\ Present(items, p) /\ p # RootId /\ IsModule(items[p])
       /\ items[p].parent_id = RootId

\* C7: with namespaces off, is_toplevel(i) answers, and answers true iff
\* the parent chain of i reaches the root through items that are all in the
\* context and all modules.
C7_ToplevelNamespacesOff ==
    ~options.enable_cxx_namespaces =>
        \A i \in DOMAIN items :
            IsToplevel(items, i) =
                [st |-> "ok", val |-> ChainThroughModules(items, i)]

\* C7 witness: with namespaces off, is_toplevel has answered true for a
\* record inside a namespace.
C7_Witness ==
    /\ ~options.enable_cxx_namespaces
    /\ ret.op = "is_toplevel" /\ ret.st = "ok" /\ ret.val = TRUE
    /\ ~IsModule(items[ret.arg])
    /\ LET p == items[ret.arg].parent_id IN
       Present(items, p) /\ p # RootId /\ IsModule(items[p])

\* The traced item is opaque and not hidden.
TracedOpaque ==
    /\ ret.op = "trace" /\ ret.st = "ok"
    /\ ~IsHidden(items, ret.arg).val
    /\ IsOpaque(items, ret.arg).val

Unconditional(it) == it.kind = "Type" /\ ShouldBeTracedUnconditionally(it)

\* C8 as claimed: the trace of an opaque item (one that is not hidden) of
\* whatever kind reports no edge, unless the item is a resolved type
\* reference, whose edge to its target is reported.
C8_OpaqueNotTraced ==
    TracedOpaque =>
        ret.val = IF Unconditional(items[ret.arg])
                      THEN TypeTrace(items[ret.arg]) ELSE {}

\* C8, amended: the trace of a hidden item reports no edge; the trace of an
\* opaque item that is not hidden reports, for a type, no edge unless it is
\* a resolved type reference, whose edge to its target is reported; for a
\* function, the edge to its signature; for a variable, the edge to its
\* type; for a module, none.
C8_OpaqueTypesNotTraced ==
    /\ (ret.op = "trace" /\ ret.st = "ok" /\ IsHidden(items, ret.arg).val)
            => ret.val = {}
    /\ TracedOpaque =>
        LET it == items[ret.arg] IN
        ret.val = CASE Unconditional(it) -> {[to |-> it.refs[1], kind |-> "Generic"]}
                    [] it.kind = "Function" -> {[to |-> it.refs[1], kind |-> "Generic"]}
                    [] it.kind = "Var" -> {[to |-> it.refs[1], kind |-> "VarType"]}
                    [] OTHER -> {}

\* C8 witness: an opaque resolved type reference has been traced, and the
\* edge to its target reported.
C8_Witness ==
    /\ TracedOpaque
    /\ items[ret.arg].tkind = "ResolvedTypeRef"
    /\ ret.val # {}

\* The items declared directly in module m.
Children(its, m) == {c \in DOMAIN its \ {m} : its[c].parent_id = m}

\* The edge kinds Item::trace gives to the edges that are not module to
\* child edges.
OtherEdgeKinds == {"Generic", "VarType"}

\* C9: the trace of a module reports an edge to each of its children, of a
\* kind no other edge has.
C9_ModuleChildEdges ==
    (ret.op = "trace" /\ ret.st = "ok" /\ IsModule(items[ret.arg])
            /\ ~IsHidden(items, ret.arg).val)
        => \A c \in Children(items, ret.arg) :
            \E e \in ret.val : e.to = c /\ e.kind \notin OtherEdgeKinds

ReEntered ==
    /\ dstack # <<>>
    /\ Top.pc = "enter"
    /\ \E k \in 1 .. Len(dstack) - 1 :
        dstack[k].item = Top.item /\ dstack[k].q = Top.q

\* The re-entered call returns at once, handing its caller false for
\* Default and true for the other queries.
C11_ReturnsAtOnce ==
    ReEntered =>
        /\ Len(dstack') = Len(dstack) - 1
        /\ dstack'[Len(dstack')].pc =
                IF Top.q = "default" THEN "exit" ELSE "members"

C11_FlagsReset ==
    dstack = <<>> =>
        \A i \in DOMAIN items :
            ~items[i].detect_derive_debug_cycle /\ ~items[i].detect_derive_copy_cycle

\* C11: each of the four derive queries has a per-item re-entrance guard: a
\* call that reaches an item its own query is still evaluating returns at
\* once, without descending, true for Debug and Copy and false for Default,
\* and no flag is left set when the outermost query has returned.
C11_ReentranceGuard == [](C11_FlagsReset) /\ [][C11_ReturnsAtOnce]_vars

-----------------------------------------------------------------------------
(* Aliases: a namespace, a struct, a template parameter named `type`, and   *)
(* references and template instantiations that lead to types parsed before  *)
(* them, with or without a replaces annotation.                             *)

AliasKinds == {ModuleKind("bar", FALSE)}

AliasTypeKinds ==
    {TypeKindOf("Comp", "Foo", <<>>)}
        \cup {TypeKindOf(k, NoneStr, <<t>>) :
                k \in {"ResolvedTypeRef", "TemplateInstantiation"},
                t \in TypeIds \cap DOMAIN items}

AliasAnnots == {NoAnnotations, Annotated(FALSE, FALSE, <<"n", "Fake">>)}

AliasOptions ==
    {Options(ns, FALSE, FALSE, TRUE, TRUE, {}, {}) : ns \in BOOLEAN}

InitAlias == InitWith(AliasOptions)

NextAlias ==
    \/ ParseUpTo(MaxNamingId, AliasKinds, AliasTypeKinds, AliasAnnots)
    \/ NamedType(MaxNamingId, {"type"})
    \/ ResolveTyperefs
    \/ BeginCodegen
    \/ DoNameTarget

SpecAlias == InitAlias /\ [][NextAlias]_vars

IsAlias(it) ==
    it.kind = "Type" /\ it.tkind \in {"ResolvedTypeRef", "TemplateInstantiation"}

\* The first item on the chain of aliases from `item` that carries a
\* use_instead_of annotation or is not an alias (n bounds the chain).
RECURSIVE FirstNameable(_, _, _)
FirstNameable(its, item, n) ==
    IF its[item].use_instead_of # <<>> \/ ~IsAlias(its[item]) \/ n = 0 THEN item
    ELSE FirstNameable(its, its[item].refs[1], n - 1)

\* C12: name_target(i) is the first item on the chain of aliases from i
\* that carries use_instead_of or is not an alias, be it i or a later one.
C12_NameTargetStopsAtOverride ==
    (ret.op = "name_target" /\ ret.st = "ok")
        => ret.val = FirstNameable(items, ret.arg, Cardinality(DOMAIN items))

-----------------------------------------------------------------------------
(* Overloads: a record C whose id is minted first, its constructors and     *)
(* methods parsed with that id as parent, then the record itself with the   *)
(* lists of them; free functions and anonymous records beside it.           *)

\* The ids of S in increasing order
RECURSIVE InOrder(_)
InOrder(S) ==
    IF S = {} THEN <<>>
    ELSE LET least == CHOOSE x \in S : \A y \in S : x <= y
         IN  <<least>> \o InOrder(S \ {least})

\* The functions parsed so far inside the record that has no item yet, in
\* the order of their declarations; those named as the record are its
\* constructors.
Members(names) ==
    InOrder({f \in DOMAIN items :
                /\ items[f].kind = "Function"
                /\ items[f].parent_id \in Reserved
                /\ items[f].name \in names})

\* CompInfo of struct C: ci.constructors() and ci.methods()
RecordKinds ==
    {[TypeKindOf("Comp", "C", <<>>) EXCEPT !.constructors = Members({"C"}),
                                          !.methods = Members({"m"})]}

\* The signature of a function is a type the naming queries never resolve.
OverloadKinds == {FunctionKind(name, NoId) : name \in {"m", "C"}}

OverloadTypeKinds == {TypeKindOf("Comp", NoneStr, <<>>)}

OverloadAnnots == {NoAnnotations, Annotated(FALSE, FALSE, <<"n", "Fake">>)}

OverloadOptions ==
    {Options(ns, FALSE, FALSE, TRUE, TRUE, {}, {}) : ns \in BOOLEAN}

InitOverload == InitWith(OverloadOptions)

NextOverload ==
    \/ Reserved = {} /\ NextItemIdUpTo(MaxNamingId)
    \/ ParseUpTo(MaxNamingId, OverloadKinds, OverloadTypeKinds, OverloadAnnots)
    \/ FromTyWithId(RecordKinds, {NoAnnotations})
    \/ ResolveTyperefs
    \/ BeginCodegen
    \/ DoBaseName

SpecOverload == InitOverload /\ [][NextOverload]_vars

\* The two items are siblings with the same source name, or both anonymous.
SameNameSiblings(i, j) ==
    /\ i # j
    /\ i # RootId /\ j # RootId
    /\ items[i].parent_id = items[j].parent_id
    /\ items[i].name = items[j].name

\* The canonical names of i, then of j, asked in that order.
NamesOf(i, j) ==
    LET a == CanonicalName(items, i)
        b == CanonicalName(a.its, j)
    IN  <<a, b>>

\* C13: any two distinct items with the same immediate parent and the same
\* source name (or both anonymous) have different canonical names.
C13_SiblingNamesDiffer ==
    codegen =>
        \A i, j \in DOMAIN items :
            SameNameSiblings(i, j) =>
                LET n == NamesOf(i, j) IN
                (n[1].st = "ok" /\ n[2].st = "ok") => n[1].val # n[2].val

\* The last query asked the base name of a function declared in a record.
BaseNameOfMember ==
    /\ ret.op = "base_name" /\ ret.st = "ok"
    /\ items[ret.arg].kind = "Function"
    /\ Present(items, items[ret.arg].parent_id)
    /\ IsRecord(items[items[ret.arg].parent_id])

\* The rank of function i in its record: its place in the constructor list,
\* or the number of methods of its name listed before it.
OverloadRank(i) ==
    LET record == items[items[i].parent_id]
        ctors == record.constructors
        meths == record.methods
    IN  IF \E k \in DOMAIN ctors : ctors[k] = i
            THEN (CHOOSE k \in DOMAIN ctors : ctors[k] = i) - 1
        ELSE IF \E k \in DOMAIN meths : meths[k] = i
            THEN LET at == CHOOSE k \in DOMAIN meths : meths[k] = i
                 IN  Cardinality({j \in 1 .. at - 1 :
                                    items[meths[j]].name = items[i].name})
        ELSE 0

\* The name of function i followed by its rank when that is above 0.
OverloadName(i) ==
    IF OverloadRank(i) > 0
        THEN items[i].name \o Decimal(OverloadRank(i))
        ELSE items[i].name

-----------------------------------------------------------------------------
(* Overrides: the items of the alias contexts, and their canonical names    *)
(* under every setting of the namespace options.                            *)

OverrideOptions ==
    {Options(ns, dnn, FALSE, TRUE, TRUE, {}, {}) : ns \in BOOLEAN, dnn \in BOOLEAN}

InitOverride == InitWith(OverrideOptions)

NextOverride ==
    \/ ParseUpTo(MaxNamingId, AliasKinds, AliasTypeKinds, AliasAnnots)
    \/ NamedType(MaxNamingId, {"type"})
    \/ ResolveTyperefs
    \/ BeginCodegen
    \/ DoCanonicalName

SpecOverride == InitOverride /\ [][NextOverride]_vars

\* The last query asked the canonical name of an item, and the first item
\* on its chain of aliases that is annotated or not an alias is `target`.
NamedThrough(target) ==
    /\ ret.op = "canonical_name" /\ ret.st = "ok"
    /\ target = FirstNameable(items, ret.arg, Cardinality(DOMAIN items))

\* C15: the canonical name of an item whose name target carries
\* use_instead_of(p) is the last element of p with namespaces enabled, and
\* the elements of p joined with '_' otherwise, with no ancestor before it.
C15_OverrideName ==
    \A target \in DOMAIN items :
        (NamedThrough(target) /\ items[target].use_instead_of # <<>>) =>
            LET p == items[target].use_instead_of IN
            ret.val = IF options.enable_cxx_namespaces
                          THEN p[Len(p)] ELSE Join(p, "_")

-----------------------------------------------------------------------------
(* Template parameters: the alias contexts of at most MaxId items.          *)

NextNamed ==
    \/ Parse(AliasKinds, AliasTypeKinds, AliasAnnots)
    \/ NamedType(MaxId, {"type"})
    \/ ResolveTyperefs
    \/ BeginCodegen
    \/ DoCanonicalName

SpecNamed == InitOverride /\ [][NextNamed]_vars

-----------------------------------------------------------------------------
(* Nesting: namespaces and records inside one another, among them an        *)
(* anonymous record and a record named as a keyword of the target language, *)
(* and their names with and without the enclosing namespaces.               *)

NestingKinds == {ModuleKind("bar", FALSE)}

NestingTypeKinds ==
    {TypeKindOf("Comp", name, <<>>) : name \in {"Foo", "type", NoneStr}}

NestingOptions == {Options(FALSE, FALSE, FALSE, TRUE, TRUE, {}, {})}

InitNesting == InitWith(NestingOptions)

NextNesting ==
    \/ ParseUpTo(MaxNamingId, NestingKinds, NestingTypeKinds, {NoAnnotations})
    \/ ResolveTyperefs
    \/ BeginCodegen
    \/ DoRealCanonicalName

SpecNesting == InitNesting /\ [][NextNesting]_vars

\* The scopes that enclose p, p first, the root left out (n bounds the walk).
RECURSIVE Enclosing(_, _)
Enclosing(p, n) ==
    IF p = RootId \/ n = 0 THEN <<>>
    ELSE <<p>> \o Enclosing(items[p].parent_id, n - 1)

\* The scopes of `scopes` below the nearest module.
RECURSIVE BelowModule(_)
BelowModule(scopes) ==
    IF scopes = <<>> \/ IsModule(items[Head(scopes)]) THEN <<>>
    ELSE <<Head(scopes)>> \o BelowModule(Tail(scopes))

\* The base names of the scopes that item i is named after, the outermost
\* first, then its own, the empty ones dropped and the rest joined with '_'.
JoinedName(i, within_namespaces) ==
    LET all == Enclosing(items[i].parent_id, Cardinality(DOMAIN items))
        scopes == IF within_namespaces THEN BelowModule(all) ELSE all
        names == [k \in 1 .. Len(scopes) |->
                    BaseName(items, scopes[Len(scopes) + 1 - k]).val]
        kept == SelectSeq(names \o <<BaseName(items, i).val>>,
                          LAMBDA name : name # "")
    IN  Join(kept, "_")

\* The last query asked the real canonical name of an item that carries no
\* override and is not a template parameter.
RealNameAsked ==
    /\ ret.op \in {"real_canonical_name", "real_canonical_name_within_namespaces"}
    /\ ret.st = "ok"
    /\ items[ret.arg].use_instead_of = <<>>
    /\ items[ret.arg].tkind # "Named"

\* C16: the real canonical name of an item without override whose name
\* target is not a template parameter is the keyword-mangled '_'-join of the
\* base names of its ancestors below the root (below the nearest module when
\* within namespaces), the outermost first, followed by its own base name.
C16_RealCanonicalName ==
    RealNameAsked =>
        LET joined == JoinedName(ret.arg,
                        ret.op = "real_canonical_name_within_namespaces")
        IN  ret.val = IF joined \in {"fn", "type"} THEN joined \o "_" ELSE joined

\* struct Foo in namespace bar has been named bar_Foo, and a record declared
\* in a record in a namespace after all three.
C16_Witness ==
    /\ RealNameAsked
    /\ ret.op = "real_canonical_name"
    /\ IsRecord(items[items[ret.arg].parent_id])
    /\ ret.val = "bar_Foo_type"

-----------------------------------------------------------------------------
(* Paths: namespaces, inline or not, and records inside one another, and    *)
(* their paths with inline namespaces collapsed or kept.                    *)

PathKinds == {ModuleKind("bar", inline) : inline \in BOOLEAN}

PathTypeKinds == {TypeKindOf("Comp", name, <<>>) : name \in {"Foo", "Inner"}}

PathOptions ==
    {Options(FALSE, FALSE, cin, TRUE, TRUE, {}, {}) : cin \in BOOLEAN}

InitPaths == InitWith(PathOptions)

NextPaths ==
    \/ ParseUpTo(MaxNamingId, PathKinds, PathTypeKinds, {NoAnnotations})
    \/ ResolveTyperefs
    \/ BeginCodegen
    \/ DoCanonicalPath

SpecPaths == InitPaths /\ [][NextPaths]_vars

(* Namespace-aware paths: a namespace and records inside one another, and   *)
(* their paths as the generated code spells them, under every setting of    *)
(* the two namespace options.                                               *)

NamespaceAwareOptions ==
    {Options(ns, dnn, FALSE, TRUE, TRUE, {}, {}) : ns \in BOOLEAN, dnn \in BOOLEAN}

InitNamespaceAware == InitWith(NamespaceAwareOptions)

NextNamespaceAware ==
    \/ ParseUpTo(MaxNamingId, NestingKinds, PathTypeKinds, {NoAnnotations})
    \/ ResolveTyperefs
    \/ BeginCodegen
    \/ DoNamespaceAwareCanonicalPath

SpecNamespaceAware == InitNamespaceAware /\ [][NextNamespaceAware]_vars

\* The last query asked the canonical path of an item without override.
PathAsked ==
    /\ ret.op = "canonical_path" /\ ret.st = "ok"
    /\ items[ret.arg].use_instead_of = <<>>

\* The scopes that enclose item i, the outermost first, the root left out.
ScopesOf(i) ==
    IF i = RootId THEN <<>>
    ELSE Reverse(Enclosing(items[i].parent_id, Cardinality(DOMAIN items)))

\* The namespace is inline and inline namespaces are left out of paths.
Collapsed(scope) ==
    /\ IsModule(items[scope])
    /\ items[scope].is_inline
    /\ ~options.conservative_inline_namespaces

Segment(i) == RustMangle(JoinedName(i, TRUE))

C19_NamespaceAwarePath ==
    (ret.op = "namespace_aware_canonical_path" /\ ret.st = "ok") =>
        LET path == CanonicalPath(items, ret.arg).val IN
        ret.val = IF options.enable_cxx_namespaces THEN path
                  ELSE IF options.disable_name_namespacing
                      THEN <<path[Len(path)]>>
                  ELSE <<Join(SubSeq(path, 2, Len(path)), "_")>>

\* struct Foo in namespace bar has the one-element path [bar_Foo], with
\* namespaces and the disabling of name namespacing off.
C19_Witness ==
    /\ ret.op = "namespace_aware_canonical_path" /\ ret.st = "ok"
    /\ ~options.enable_cxx_namespaces /\ ~options.disable_name_namespacing
    /\ ret.arg # RootId /\ IsModule(items[items[ret.arg].parent_id])
    /\ ret.val = <<"bar_Foo">>

-----------------------------------------------------------------------------
(* Dispatch: Item::parse on a cursor, given what each of the sub-parsers    *)
(* (Module::parse, Function::parse, Var::parse, Item::from_ty) answers for  *)
(* that cursor.                                                             *)

\* ParseResult::New, ParseResult::AlreadyResolved, ParseError::Recurse,
\* ParseError::Continue
Answers == {"New", "AlreadyResolved", "Recurse", "Continue"}

\* A cursor: whether it is valid, whether its kind is CXCursor_UnexposedDecl,
\* and the answer of each sub-parser for it.  No sub-parser has an answer
\* other than Continue for an invalid cursor or an unexposed declaration.
Cursors ==
    [valid : {TRUE}, unexposed : {FALSE},
     Module : Answers, Function : Answers, Var : Answers, Type : Answers]
        \cup [valid : BOOLEAN, unexposed : BOOLEAN,
              Module : {"Continue"}, Function : {"Continue"},
              Var : {"Continue"}, Type : {"Continue"}]

\* The attempts of Item::parse from the k-th of `order` on, `tried` being
\* those made so far: the first answer that is not Continue ends them.
RECURSIVE TryParse(_, _, _, _)
TryParse(cursor, order, k, tried) ==
    IF k > Len(order)
        THEN [what |-> "-", tried |-> tried,
              answer |-> IF cursor.unexposed THEN "Recurse" ELSE "Continue"]
    ELSE IF cursor[order[k]] = "Continue"
        THEN TryParse(cursor, order, k + 1, Append(tried, order[k]))
    ELSE [what |-> order[k], tried |-> Append(tried, order[k]),
          answer |-> cursor[order[k]]]

\* Item::parse with the type attempt made before the function attempt
ItemParseTypeFirst(cursor) ==
    IF ~cursor.valid THEN [what |-> "-", tried |-> <<>>, answer |-> "Continue"]
    ELSE TryParse(cursor, <<"Module", "Type", "Function", "Var">>, 1, <<>>)

\* Item::parse: the attempt that decides and its answer
ItemParse(cursor) ==
    IF ~cursor.valid THEN [what |-> "-", tried |-> <<>>, answer |-> "Continue"]
    ELSE TryParse(cursor, <<"Module", "Function", "Var", "Type">>, 1, <<>>)

\* What the sub-parser `what` hands to Item::new for the cursor
ParsedKind(what) ==
    CASE what = "Module" -> ModuleKind("bar", FALSE)
      [] what = "Function" -> FunctionKind("f", NoId)
      [] what = "Var" -> VarKind("v", NoId)
      [] OTHER -> TypeKindOf("FunctionSig", NoneStr, <<>>)

\* Result<ItemId, ParseError>
ParseOk(id) == [result |-> "Ok", id |-> id]
ParseErr(error) == [result |-> error, id |-> NoId]

\* Every call of Item::parse mints an id.
MintsIdAlways(r) == TRUE

\* The call mints an id: try_parse! does for a New item (ctx.next_item_id()),
\* Item::from_ty does as soon as the type attempt is made.
MintsId(r) == r.answer = "New" \/ "Type" \in Range(r.tried)

\* Item::parse on `cursor`, in a context of ids up to max.  Item::from_ty
\* mints the id of the type before it looks at it.
ParseCursor(max) ==
    /\ Parsing
    /\ next_item_id <= max
    /\ \E cursor \in Cursors :
        LET r == ItemParse(cursor)
        IN  /\ next_item_id' = IF MintsId(r) THEN next_item_id + 1 ELSE next_item_id
            /\ IF r.answer = "New"
                   THEN \E relevant_parent_id \in RelevantParents(next_item_id) :
                        /\ items' = AddItem(items, next_item_id,
                                        ItemNew(relevant_parent_id, NoAnnotations,
                                                ParsedKind(r.what)))
                        /\ ret' = Outcome("parse_cursor", cursor, "ok",
                                          ParseOk(next_item_id))
               ELSE IF r.answer = "AlreadyResolved"
                   THEN \E id \in {i \in DOMAIN items : items[i].kind = r.what} :
                        /\ items' = items
                        /\ ret' = Outcome("parse_cursor", cursor, "ok", ParseOk(id))
               ELSE /\ items' = items
                    /\ ret' = Outcome("parse_cursor", cursor, "ok",
                                      ParseErr(r.answer))
    /\ UNCHANGED <<replacements, collected_typerefs, codegen, options, dstack, currently_parsed_types>>

InitDispatch == InitWith(NestingOptions)

NextDispatch == ParseCursor(MaxId)

SpecDispatch == InitDispatch /\ [][NextDispatch]_vars

\* The first of the four attempts, in the order Module, Function, Var, Type,
\* whose answer for the cursor is not Continue; "-" when there is none.
FirstAttempt(cursor) ==
    IF cursor.Module # "Continue" THEN "Module"
    ELSE IF cursor.Function # "Continue" THEN "Function"
    ELSE IF cursor.Var # "Continue" THEN "Var"
    ELSE IF cursor.Type # "Continue" THEN "Type"
    ELSE "-"

\* C20: for a valid cursor Item::parse returns the outcome of the first of
\* the attempts Module, Function, Var, Type that is not Continue: its
\* Recurse, or an item of its kind; so a cursor that both the function and
\* the type attempt accept yields a Function item.
C20_FirstAttemptDecides ==
    (ret.op = "parse_cursor" /\ ret.arg.valid /\ FirstAttempt(ret.arg) # "-") =>
        LET first == FirstAttempt(ret.arg)
            answer == ret.arg[first]
        IN  IF answer = "Recurse" THEN ret.val = ParseErr("Recurse")
            ELSE /\ ret.val.result = "Ok"
                 /\ items[ret.val.id].kind = first
                 /\ answer = "New" => ret.val.id = next_item_id - 1

\* A cursor that the function attempt and the type attempt both accept has
\* been parsed into a Function item.
C20_Witness ==
    /\ ret.op = "parse_cursor" /\ ret.arg.valid
    /\ ret.arg.Module = "Continue"
    /\ ret.arg.Function = "New" /\ ret.arg.Type = "New"
    /\ ret.val.result = "Ok"
    /\ items[ret.val.id].kind = "Function"

\* The step is a call of Item::parse that the attempt `what` decided by
\* reporting AlreadyResolved.
AlreadyResolvedBy(what) ==
    /\ ret'.op = "parse_cursor"
    /\ ret'.arg.valid
    /\ FirstAttempt(ret'.arg) = what
    /\ ret'.arg[what] = "AlreadyResolved"

\* The step returns the id of an item of kind `what` that the context
\* holds, mints no id and adds no item.
ReturnsExisting(what) ==
    /\ ret'.val.result = "Ok"
    /\ ret'.val.id \in DOMAIN items
    /\ items[ret'.val.id].kind = what
    /\ next_item_id' = next_item_id
    /\ items' = items

\* C21: when an attempt of Item::parse reports AlreadyResolved, the call
\* returns the existing id, mints no id and adds no item.
C21_AlreadyResolvedFrame ==
    [][\A what \in {"Module", "Function", "Var", "Type"} :
            AlreadyResolvedBy(what) => ReturnsExisting(what)]_vars

\* C21, for the attempts made through try_parse!: when the Module, Function
\* or Var attempt reports AlreadyResolved, the call returns the existing id,
\* mints no id and adds no item; when the type attempt does, the call
\* returns the existing id and adds no item, and the id that Item::from_ty
\* minted for the type stays without an item.
C21_AlreadyResolvedByTryParse ==
    [][/\ \A what \in {"Module", "Function", "Var"} :
            AlreadyResolvedBy(what) => ReturnsExisting(what)
       /\ AlreadyResolvedBy("Type") =>
            /\ ret'.val.result = "Ok"
            /\ ret'.val.id \in DOMAIN items
            /\ items' = items
            /\ next_item_id' = next_item_id + 1]_vars

\* The namespace bar, item 1, has been opened again: the Module attempt
\* reported it AlreadyResolved and Item::parse returned its id, the context
\* holding the items it held.
C21_Witness ==
    /\ ret.op = "parse_cursor" /\ ret.arg.valid
    /\ ret.arg.Module = "AlreadyResolved"
    /\ ret.val = ParseOk(1)
    /\ IsModule(items[1])
    /\ next_item_id = Cardinality(DOMAIN items)

-----------------------------------------------------------------------------
(* Forward references *)

\* The items the step adds
Added == DOMAIN items' \ DOMAIN items

\* C22: once collected_typerefs() is true no parser operation adds an
\* UnresolvedTypeRef item, and the flag stays true.
C22_NoPlaceholderAfterCollection ==
    [][collected_typerefs =>
            /\ collected_typerefs'
            /\ \A i \in Added : items'[i].tkind # "UnresolvedTypeRef"]_vars

\* A type reference has been parsed after the flag flipped: the call went
\* through the full parse and added a type that is not a placeholder, or
\* fell back to an opaque type.
C22_Witness ==
    /\ collected_typerefs
    /\ ret.op \in {"from_ty_with_id", "new_opaque_type"}
    /\ ret.val \in DOMAIN items
    /\ items[ret.val].tkind \in {"Comp", "Opaque"}

\* The step is a call of from_ty_or_ref_with_id made while the collection
\* of type references is open.
RefWhileOpen ==
    /\ ~collected_typerefs
    /\ ret'.op = "from_ty_or_ref_with_id"

\* The step adds one item, a placeholder under the supplied id, and returns
\* that id.
AddsPlaceholder ==
    /\ Added = {ret'.arg}
    /\ items'[ret'.arg].tkind = "UnresolvedTypeRef"
    /\ ret'.val = ret'.arg

\* C23: while the collection of type references is open, every call of
\* from_ty_or_ref_with_id adds a placeholder under the supplied id and
\* returns that id.
C23_PlaceholderWhileOpen ==
    [][RefWhileOpen => AddsPlaceholder]_vars

\* C23, for the types the context does not know yet: while the collection
\* is open, a call of from_ty_or_ref_with_id either adds a placeholder under
\* the supplied id and returns that id, or returns the id of a type the
\* context already holds and adds nothing.
C23_PlaceholderOrKnownType ==
    [][RefWhileOpen =>
            \/ AddsPlaceholder
            \/ /\ items' = items
               /\ ret'.val \in DOMAIN items
               /\ items[ret'.val].kind = "Type"]_vars

\* A placeholder has been added under the supplied id.
C23_Witness ==
    /\ ~collected_typerefs
    /\ ret.op = "from_ty_or_ref_with_id"
    /\ ret.val = ret.arg
    /\ ret.arg \in DOMAIN items
    /\ items[ret.arg].tkind = "UnresolvedTypeRef"


-----------------------------------------------------------------------------
(* Type parsing, call by call.  Item::from_ty_with_id calls itself: through *)
(* Type::from_clang_ty, which parses the types a declaration mentions, and  *)
(* through visit_child, when the decoder asks to recurse into the children  *)
(* of the location.  A call in progress is a frame on dstack; the calls and *)
(* the visits below the top one wait for it.  What clang says of a type and *)
(* of a cursor is chosen when the call is made:                             *)
(*   ty       the type's declaration, or NoneStr for CXCursor_NoDeclFound   *)
(*   decl     declaration_to_look_for when valid_decl, else NoneStr         *)
(*   cur_type "associated" (is_associated_type), "named" (Item::named_type  *)
(*            finds a template parameter), "unexposed" or "exposed"         *)
(* A template parameter and an associated type have no declaration (see the *)
(* comment on Item::named_type), and a ClassTemplate cursor is neither, so   *)
(* the callers that pass a type with the cursor it was read from pass a      *)
(* declaration only with the other two; visit_child passes the type it was   *)
(* given with every child cursor.  Types are not builtin and carry no        *)
(* annotations here.                                                         *)

\* The calls and visits in progress at once, at most
MaxFrames == MaxId + 2

Decls == {"A", "B"}

CurTypes == {"exposed", "unexposed", "associated", "named"}

OkId(id) == [ok |-> TRUE, id |-> id, err |-> NoneStr]

ParseError(e) == [ok |-> FALSE, id |-> NoId, err |-> e]

\* PartialType::new(decl, id)
PartialType(decl, id) == [decl |-> decl, id |-> id]

\* ctx.begin_parsing(partial_ty)
BeginParsing(stack, partial_ty) == Append(stack, partial_ty)

\* ctx.finish_parsing(): the partial type popped and the stack left
FinishParsing(stack) ==
    [partial |-> stack[Len(stack)], stack |-> SubSeq(stack, 1, Len(stack) - 1)]

\* The call of from_ty_with_id(id, ty, location, ..) by `by`; `entry` is the
\* currently-parsing stack the call finds.
TyCall(id, ty, decl, cur_type, by) ==
    [fn |-> "from_ty_with_id", id |-> id, ty |-> ty, decl |-> decl,
     cur_type |-> cur_type, by |-> by, pc |-> "enter",
     result |-> ParseError("Recurse"), tried_named |-> FALSE,
     entry |-> currently_parsed_types]

\* cursor.visit(|cur| visit_child(cur, ..)) in progress
Visit == [fn |-> "visit"]

\* What a caller other than visit_child may pass
TypesWithCursor ==
    {a \in [ty : Decls \cup {NoneStr}, decl : Decls \cup {NoneStr},
            cur_type : CurTypes] :
        /\ a.ty # NoneStr => a.decl = a.ty
        /\ a.decl # NoneStr => a.cur_type \in {"exposed", "unexposed"}}

\* What visit_child passes for a child cursor, the type being ty
ChildCursors(ty) ==
    {a \in [ty : {ty}, decl : Decls \cup {NoneStr}, cur_type : CurTypes] :
        /\ ty # NoneStr => a.decl = ty
        /\ ty = NoneStr /\ a.decl # NoneStr
             => a.cur_type \in {"exposed", "unexposed"}}

TypeParsing == ret.st = "ok" /\ ~codegen /\ dstack # <<>>

\* The from_ty_with_id call whose `result` the visit on top of `stack` fills
Owner(stack) ==
    CHOOSE i \in 1 .. Len(stack) :
        /\ stack[i].fn = "from_ty_with_id"
        /\ \A j \in (i + 1) .. Len(stack) : stack[j].fn = "visit"

\* ctx.builtin_or_resolved_ty(id, parent_id, ty, Some(location)): the types
\* of the context that were parsed from the declaration decl, which the
\* context looks for as from_ty_with_id does ("the declaration_to_look_for
\* suspiciously shares a lot of logic with ir::context")
Resolved(decl) ==
    {t \in DOMAIN items : items[t].kind = "Type" /\ items[t].tkind = "Comp"
                          /\ items[t].name = decl}

\* The call f returns r.  Type::from_clang_ty goes on decoding; visit_child
\* stores r in `result` and, on Recurse, visits the children of its cursor
\* before it tells the visit to continue.
TyReturn(f, r) ==
    /\ ret' = Outcome("from_ty_with_id", f.id, "ok", r)
    /\ IF f.by = "visit_child"
           THEN LET o == Owner(Pop)
                    stack == [Pop EXCEPT ![o].result = r]
                IN dstack' = IF ~r.ok /\ r.err = "Recurse" /\ Len(stack) < MaxFrames
                                 THEN Append(stack, Visit) ELSE stack
           ELSE dstack' = Pop

\* No partial type is ever found.
NeverInFlight(decl) == {}

\* ctx.currently_parsed_types().iter().find(|ty| *ty.decl() == decl): where
\* the stack holds a partial type of the declaration
InFlight(decl) ==
    {k \in 1 .. Len(currently_parsed_types) :
        currently_parsed_types[k].decl = decl}

\* Item::from_ty: a new id, and from_ty_with_id with it
FromTy ==
    /\ Parsing
    /\ next_item_id <= MaxId
    /\ next_item_id' = next_item_id + 1
    /\ \E a \in TypesWithCursor :
        dstack' = <<TyCall(next_item_id, a.ty, a.decl, a.cur_type, "caller")>>
    /\ ret' = Outcome("from_ty", next_item_id, "ok", NoneStr)
    /\ UNCHANGED <<items, replacements, collected_typerefs, codegen, options,
                   currently_parsed_types>>

\* from_ty_with_id from its first line to ctx.begin_parsing
TyEnter ==
    /\ TypeParsing /\ Top.fn = "from_ty_with_id" /\ Top.pc = "enter"
    /\ LET f == Top
           valid_decl == f.decl # NoneStr
           partials == InFlight(f.decl)
       IN
       IF f.cur_type = "associated"
           THEN /\ items' = AddItem(items, f.id,
                                ItemNew(RootId, NoAnnotations,
                                        TypeKindOf("Opaque", NoneStr, <<>>)))
                /\ TyReturn(f, OkId(f.id))
                /\ UNCHANGED currently_parsed_types
       ELSE IF f.cur_type = "named"
           THEN /\ items' = AddItem(items, f.id,
                                ItemNew(RootId, NoAnnotations,
                                        TypeKindOf("Named", "T", <<>>)))
                /\ TyReturn(f, OkId(f.id))
                /\ UNCHANGED currently_parsed_types
       ELSE IF valid_decl /\ Resolved(f.decl) # {}
           THEN /\ \E ty \in Resolved(f.decl) : TyReturn(f, OkId(ty))
                /\ UNCHANGED <<items, currently_parsed_types>>
       ELSE IF valid_decl /\ partials # {}
           THEN /\ \E k \in partials : TyReturn(f, OkId(currently_parsed_types[k].id))
                /\ UNCHANGED <<items, currently_parsed_types>>
       ELSE /\ currently_parsed_types' =
                   IF valid_decl
                       THEN BeginParsing(currently_parsed_types,
                                         PartialType(f.decl, f.id))
                       ELSE currently_parsed_types
            /\ dstack' = SetTop([f EXCEPT !.pc = "decode"])
            /\ UNCHANGED <<items, ret>>
    /\ UNCHANGED <<next_item_id, replacements, collected_typerefs, codegen, options>>

\* Type::from_clang_ty parses a type the declaration mentions: Item::from_ty
\* again, one level down.
TyNested ==
    /\ TypeParsing /\ Top.fn = "from_ty_with_id" /\ Top.pc = "decode"
    /\ next_item_id <= MaxId
    /\ Len(dstack) < MaxFrames
    /\ next_item_id' = next_item_id + 1
    /\ \E a \in TypesWithCursor :
        dstack' = Append(dstack,
                         TyCall(next_item_id, a.ty, a.decl, a.cur_type, "decoder"))
    /\ UNCHANGED <<items, replacements, collected_typerefs, codegen, options,
                   ret, currently_parsed_types>>

\* The pop before the children are visited
PopToVisit(f, stack) ==
    IF f.decl # NoneStr THEN FinishParsing(stack).stack ELSE stack

\* The stack stays as the visit left it.
NoPushAgain(f, stack) == stack

\* The push after the children were visited
PushAgain(f, stack) ==
    IF f.decl # NoneStr THEN BeginParsing(stack, PartialType(f.decl, f.id))
    ELSE stack

\* A finish_parsing of the call f is about to fail: nothing to pop, or the
\* popped partial type is of another declaration.
PopFails(f) ==
    /\ f.decl # NoneStr
    /\ \/ currently_parsed_types = <<>>
       \/ FinishParsing(currently_parsed_types).partial.decl # f.decl

\* from_ty_with_id from Type::from_clang_ty's answer to the end of its match
\* arm, or to the visit of the location's children
TyDecoded ==
    /\ TypeParsing /\ Top.fn = "from_ty_with_id" /\ Top.pc = "decode"
    /\ LET f == Top IN
       \/ \E ty \in {t \in DOMAIN items : items[t].kind = "Type"} :
            \* AlreadyResolved(ty)
            /\ dstack' = SetTop([f EXCEPT !.pc = "exit", !.result = OkId(ty)])
            /\ UNCHANGED <<items, ret, currently_parsed_types>>
       \/ \* New(item, declaration)
          /\ f.id \notin DOMAIN items
          /\ items' = AddItem(items, f.id,
                          ItemNew(RootId, NoAnnotations,
                                  IF f.decl # NoneStr
                                      THEN TypeKindOf("Comp", f.decl, <<>>)
                                      ELSE TypeKindOf("Pointer", NoneStr, <<RootId>>)))
          /\ dstack' = SetTop([f EXCEPT !.pc = "exit", !.result = OkId(f.id)])
          /\ UNCHANGED <<ret, currently_parsed_types>>
       \/ \* ParseError(Continue)
          /\ dstack' = SetTop([f EXCEPT !.pc = "exit", !.result = ParseError("Continue")])
          /\ UNCHANGED <<items, ret, currently_parsed_types>>
       \/ \* ParseError(Recurse)
          IF PopFails(f)
              THEN /\ ret' = Outcome("from_ty_with_id", f.id, "panic", NoneStr)
                   /\ UNCHANGED <<items, dstack, currently_parsed_types>>
          ELSE /\ currently_parsed_types' = PopToVisit(f, currently_parsed_types)
               /\ dstack' = Append(SetTop([f EXCEPT !.pc = "visited",
                                                    !.result = ParseError("Recurse")]),
                                   Visit)
               /\ UNCHANGED <<items, ret>>
    /\ UNCHANGED <<next_item_id, replacements, collected_typerefs, codegen, options>>

\* The visit hands the next child to visit_child, or has no child left.
\* visit_child breaks the visit when `result` is Ok, and calls
\* from_ty_with_id with the child otherwise.
VisitChild ==
    /\ TypeParsing /\ Top.fn = "visit"
    /\ LET o == dstack[Owner(dstack)] IN
       \/ dstack' = Pop
       \/ /\ ~o.result.ok
          /\ Len(dstack) < MaxFrames
          /\ \E a \in ChildCursors(o.ty) :
               dstack' = Append(dstack,
                                TyCall(o.id, a.ty, a.decl, a.cur_type, "visit_child"))
    /\ UNCHANGED <<items, next_item_id, replacements, collected_typerefs,
                   codegen, options, ret, currently_parsed_types>>

\* from_ty_with_id after the visit: the push, and the named type it falls
\* back to
TyVisited ==
    /\ TypeParsing /\ Top.fn = "from_ty_with_id" /\ Top.pc = "visited"
    /\ LET f == Top IN
       /\ currently_parsed_types' = PushAgain(f, currently_parsed_types)
       /\ IF ~f.result.ok /\ f.result.err = "Recurse"
              THEN IF f.cur_type = "named"
                       THEN /\ items' = AddItem(items, f.id,
                                            ItemNew(RootId, NoAnnotations,
                                                    TypeKindOf("Named", "T", <<>>)))
                            /\ dstack' = SetTop([f EXCEPT !.pc = "exit",
                                                          !.tried_named = TRUE,
                                                          !.result = OkId(f.id)])
                   ELSE /\ dstack' = SetTop([f EXCEPT !.pc = "exit",
                                                      !.tried_named = TRUE])
                        /\ UNCHANGED items
          ELSE /\ dstack' = SetTop([f EXCEPT !.pc = "exit"])
               /\ UNCHANGED items
    /\ UNCHANGED <<next_item_id, replacements, collected_typerefs, codegen,
                   options, ret>>

\* The last finish_parsing of from_ty_with_id, and its return
TyExit ==
    /\ TypeParsing /\ Top.fn = "from_ty_with_id" /\ Top.pc = "exit"
    /\ LET f == Top IN
       IF PopFails(f)
           THEN /\ ret' = Outcome("from_ty_with_id", f.id, "panic", NoneStr)
                /\ UNCHANGED <<dstack, currently_parsed_types>>
       ELSE /\ currently_parsed_types' =
                   IF f.decl # NoneStr
                       THEN FinishParsing(currently_parsed_types).stack
                       ELSE currently_parsed_types
            /\ TyReturn(f, f.result)
    /\ UNCHANGED <<items, next_item_id, replacements, collected_typerefs,
                   codegen, options>>

InitTypes == InitWith(NestingOptions)

NextTypes ==
    \/ FromTy
    \/ TyEnter
    \/ TyNested
    \/ TyDecoded
    \/ VisitChild
    \/ TyVisited
    \/ TyExit

SpecTypes == InitTypes /\ [][NextTypes]_vars


-----------------------------------------------------------------------------
(* The currently-parsing stack *)

\* A from_ty_with_id call is the one running.
InCall == dstack # <<>> /\ Top.fn = "from_ty_with_id"

\* The call that was running has returned: its caller, or the visit that
\* made it, is on top again.
Returned ==
    \/ Len(dstack') < Len(dstack)
    \/ Len(dstack') = Len(dstack) /\ dstack'[Len(dstack')].fn = "visit"

\* C24: no assertion of from_ty_with_id fails; every partial type a call pops
\* is the one of its own declaration and id, which it pushed; and every call,
\* whatever it returns and whatever calls it made meanwhile, leaves the
\* currently-parsing stack as it found it.
C24_StackRestored ==
    [][InCall =>
        /\ ret'.st # "panic"
        /\ Len(currently_parsed_types') < Len(currently_parsed_types)
             => /\ currently_parsed_types' =
                      SubSeq(currently_parsed_types, 1,
                             Len(currently_parsed_types) - 1)
                /\ currently_parsed_types[Len(currently_parsed_types)] =
                      PartialType(Top.decl, Top.id)
        /\ Returned => currently_parsed_types' = Top.entry]_vars

\* A call made by the decoder of a type in flight went through the visit of
\* its children and the push after it, and is about to pop and return.
C24_Witness ==
    /\ dstack # <<>>
    /\ Top.fn = "from_ty_with_id" /\ Top.pc = "exit" /\ Top.by = "decoder"
    /\ Top.tried_named
    /\ Top.decl # NoneStr
    /\ Top.entry # <<>>
    /\ currently_parsed_types =
          Append(Top.entry, PartialType(Top.decl, Top.id))

\* C25: when the visit of the children has left no item, from_ty_with_id
\* tries the named type before it returns the error.
C25_NamedFallbackTried ==
    [][InCall /\ Top.pc = "visited" /\ ~Top.result.ok
          => dstack'[Len(dstack')].tried_named]_vars

\* C26: the stack never holds two partial types of one declaration, and a
\* call for a declaration in flight returns the id of its partial type,
\* pushing nothing and adding no item.
C26_OnePartialPerDeclaration ==
    [][/\ \A i, j \in 1 .. Len(currently_parsed_types') :
            currently_parsed_types'[i].decl = currently_parsed_types'[j].decl
                => i = j
       /\ \A k \in 1 .. Len(currently_parsed_types) :
            InCall /\ Top.pc = "enter" /\ Top.decl # NoneStr
                   /\ currently_parsed_types[k].decl = Top.decl
                => /\ Returned
                   /\ ret'.val = OkId(currently_parsed_types[k].id)
                   /\ currently_parsed_types' = currently_parsed_types
                   /\ items' = items]_vars

\* The decoder of a type in flight asked for that type again and got the id
\* the type is being parsed under.
C26_Witness ==
    /\ dstack # <<>>
    /\ Top.fn = "from_ty_with_id" /\ Top.pc = "decode"
    /\ Top.decl # NoneStr
    /\ ret.op = "from_ty_with_id" /\ ret.arg # Top.id
    /\ ret.val = OkId(Top.id)
    /\ ret.arg \notin DOMAIN items
    /\ currently_parsed_types = <<PartialType(Top.decl, Top.id)>>


-----------------------------------------------------------------------------
(* Local ids and re-parenting.  Item::local_id asks for no phase and        *)
(* Item::set_parent_for_replacement for no state of the item, so the two    *)
(* may be called in any order on the items parsed so far.                   *)

\* item.local_id(ctx), whenever it is called
LocalIdQuery ==
    /\ Running
    /\ \E id \in DOMAIN items : Query("local_id", id, LocalId(items, id))

InitSiblings == InitWith(GraphOptions)

NextSiblings ==
    \/ Parse(NamingKinds, NamingTypeKinds, GraphAnnots)
    \/ SetParentForReplacement
    \/ LocalIdQuery

SpecSiblings == InitSiblings /\ [][NextSiblings]_vars

\* C27: a local id, once assigned, stays, and the items of one parent that
\* have a local id have different ones.
C27_LocalIdsOfSiblingsDiffer ==
    [][/\ \A i \in DOMAIN items :
            items[i].local_id # NoId
                => i \in DOMAIN items' /\ items'[i].local_id = items[i].local_id
       /\ \A i, j \in DOMAIN items' :
            /\ i # j
            /\ items'[i].parent_id = items'[j].parent_id
            /\ items'[i].local_id # NoId
            /\ items'[j].local_id # NoId
            => items'[i].local_id # items'[j].local_id]_vars

=============================================================================
